---- MODULE Spec2Model ----
(***************************************************************************)
(* Model of the shielded (MASP) authorization path of                      *)
(* packages/shared/lib/src/sdk/args.rs: generate_masp_build_params,        *)
(* masp_sign and the signature mapper MapSaplingSigAuth.                    *)
(*                                                                         *)
(* A transaction (Tx) is its list of sections.  A MaspTx section carries   *)
(* its non-authorizing content (body, the spend descriptors' nullifiers,   *)
(* the transparent bundle) and its authorizing content (per spend: the     *)
(* proof and the spend authorization signature; the binding signature).    *)
(* Positions are 0-based as in the source; TLA+ sequences are 1-based, so  *)
(* the descriptor at position p is spends[p + 1].                          *)
(*                                                                         *)
(* Randomness (OsRng) is modelled as a source of fresh values: every draw  *)
(* returns the current value of the counter rng and advances it.           *)
(***************************************************************************)
EXTENDS Integers, Sequences, FiniteSets, TLC

\* Largest number of spend descriptors / builder inputs / metadata entries.
MaxSpends == 2
\* Largest number of masp_sign calls in one behaviour.
MaxCalls == 2

\* The most transfer legs of a payload.
MaxLegs == 2

\* The most gas spending keys of a payload.
MaxGasKeys == 2

\* Two independent callers, each owning its own copy of the transaction and
\* its own parameter provider.
Callers == {"c1", "c2"}

\* Option<T>: None is the empty sequence, Some(x) the one-element sequence.
None == <<>>
Some(x) == <<x>>

---------------------------------------------------------------------------
(* Sections *)

DataSection == [kind |-> "Data"]
CodeSection == [kind |-> "Code"]

\* The signature a spend descriptor carries before signing.
PlaceholderSig(p) == [ask |-> <<"placeholder">>, alpha |-> 0 - 1, msg |-> <<>>, nonce |-> 0 - (p + 1)]

\* A spend descriptor at position p as transaction construction leaves it.
SpendDescription(p) == [nullifier |-> p, zkproof |-> 100 + p, spend_auth_sig |-> PlaceholderSig(p)]

\* Section::MaspTx with n spend descriptors.
MaspTxSection(n, transparent_ok) ==
    [kind |-> "MaspTx",
     body |-> "outputs",
     transparent_ok |-> transparent_ok,
     spends |-> [i \in 1..n |-> SpendDescription(i - 1)],
     binding_sig |-> "bsig"]

\* Transaction::txid: the digest of the non-authorizing content only.
txid(m) == <<"txid", m.body, [i \in 1..Len(m.spends) |-> m.spends[i].nullifier], m.transparent_ok>>

\* Section::MaspBuilder: the builder (its sapling inputs) and the metadata
\* (spend_indices), paired with a MaspTx section by target.
MaspBuilderSection(target, m, spend_indices) ==
    [kind |-> "MaspBuilder",
     target |-> target,
     sapling_inputs |-> [i \in 1..m |-> i - 1],
     spend_indices |-> spend_indices]

---------------------------------------------------------------------------
(* Tx section accessors (namada_sdk::tx::Tx), as masp_sign uses them *)

\* Tx::get_masp_section: the first MaspTx section whose txid is hash.
get_masp_section(tx, hash) ==
    LET hits == {i \in 1..Len(tx) : tx[i].kind = "MaspTx" /\ txid(tx[i]) = hash}
    IN IF hits = {} THEN None
       ELSE Some(tx[CHOOSE i \in hits : \A j \in hits : i <= j])

\* Tx::get_masp_builder: the first MaspBuilder section whose target is hash.
get_masp_builder(tx, hash) ==
    LET hits == {i \in 1..Len(tx) : tx[i].kind = "MaspBuilder" /\ tx[i].target = hash}
    IN IF hits = {} THEN None
       ELSE Some(tx[CHOOSE i \in hits : \A j \in hits : i <= j])

KeepSection(section, hash) == ~(section.kind = "MaspTx" /\ txid(section) = hash)

remove_nothing(tx, hash) == tx

\* Tx::remove_masp_section: retain every section but the MaspTx sections
\* whose txid is hash.
remove_masp_section(tx, hash) == SelectSeq(tx, LAMBDA section : KeepSection(section, hash))

\* Tx::add_section: push at the end of the section list.
add_section(tx, section) == Append(tx, section)

---------------------------------------------------------------------------
(* Build parameter provider *)

\* RngBuildParams::new(OsRng): nothing is drawn until a parameter is asked.
RngBuildParams == [i \in {} |-> 0]

generate_masp_build_params_by_count(spend_len, convert_len, output_len, use_device) ==
    IF use_device \/ spend_len > 0
    THEN [ok |-> FALSE, err |-> "Device not supported", params |-> RngBuildParams]
    ELSE [ok |-> TRUE, err |-> "", params |-> RngBuildParams]

\* generate_masp_build_params: the counts are unused; the outcome follows
\* args.use_device alone.
generate_masp_build_params(spend_len, convert_len, output_len, use_device) ==
    IF use_device
    THEN [ok |-> FALSE, err |-> "Device not supported", params |-> RngBuildParams]
    ELSE [ok |-> TRUE, err |-> "", params |-> RngBuildParams]

\* BuildParams::spend_alpha on RngBuildParams: the parameters of spend i are
\* drawn from the generator the first time i is asked for and kept.
spend_alpha(bparams, rng, i) ==
    IF i \in DOMAIN bparams
    THEN [alpha |-> bparams[i], bparams |-> bparams, rng |-> rng]
    ELSE [alpha |-> rng, bparams |-> (i :> rng) @@ bparams, rng |-> rng + 1]

---------------------------------------------------------------------------
(* Signature mapper: MapSaplingSigAuth(authorizations) *)

map_proof(self, p, pos) == p

map_auth_sig_keep(self, s, pos) == s

map_auth_sig(self, s, pos) == IF pos \in DOMAIN self THEN self[pos] ELSE s

map_authorization_sapling(self, a) == a

\* TransactionData::map_authorization with MapSaplingSigAuth, then freeze:
\* every spend descriptor is rebuilt from its own fields, the proof and the
\* signature going through the mapper with the descriptor's position.
map_authorization(masp_tx, self) ==
    [masp_tx EXCEPT
        !.spends = [i \in 1..Len(masp_tx.spends) |->
                       [nullifier |-> masp_tx.spends[i].nullifier,
                        zkproof |-> map_proof(self, masp_tx.spends[i].zkproof, i - 1),
                        spend_auth_sig |-> map_auth_sig(self, masp_tx.spends[i].spend_auth_sig, i - 1)]],
        !.binding_sig = map_authorization_sapling(self, masp_tx.binding_sig)]

---------------------------------------------------------------------------
(* masp_sign *)

\* The extended spending key written into masp_sign (line 1016).
HardcodedXsk == "zsknam1q00j7ewuqqqqpq8gz8yvtpx226gg7nhw9vrmyvp3ay2gnjtp3xg86lsvtc7ng9nsk9lrjlutm77ghgsewqhrxu32ns054sthl4qeprppxahze0pmthmqzjqa2pmzp0xy9hnqmnkwswygf875ra4ksllyp63r6rjze2n8cwsy355fhc2lq0hyfsa2ehsflrumwkx5tqkq992g8p0af4zw7cx94mdntgvkacrs9r3j45fdsjc209f7p79lzz6mr5vdk3fqt4jkkjlckmc3ckwpk"

\* ExtendedSpendingKey::from(xsk).expsk.ask: the spend-authorizing secret of
\* an extended spending key.
Ask(xsk) == <<"ask", xsk>>

\* Metadata::spend_index(i): the final position of the i-th spend added.
spend_index(metadata, i) == IF i < Len(metadata) THEN Some(metadata[i + 1]) ELSE None

RECURSIVE InvertMetadataSwapped(_, _, _)
InvertMetadataSwapped(i, metadata, descriptor_map) ==
    IF spend_index(metadata, i) = None
    THEN [panic |-> FALSE, descriptor_map |-> descriptor_map]
    ELSE LET pos == spend_index(metadata, i)[1]
         IN IF i >= Len(descriptor_map)
            THEN [panic |-> TRUE, descriptor_map |-> descriptor_map]
            ELSE InvertMetadataSwapped(i + 1, metadata, [descriptor_map EXCEPT ![i + 1] = pos])

\* The metadata inversion loop `for i in 0..`: ascending i until
\* spend_index(i) is None; descriptor_map[pos] = i panics when pos is not an
\* index of descriptor_map.
RECURSIVE InvertMetadata(_, _, _)
InvertMetadata(i, metadata, descriptor_map) ==
    IF spend_index(metadata, i) = None
    THEN [panic |-> FALSE, descriptor_map |-> descriptor_map]
    ELSE LET pos == spend_index(metadata, i)[1]
         IN IF pos >= Len(descriptor_map)
            THEN [panic |-> TRUE, descriptor_map |-> descriptor_map]
            ELSE InvertMetadata(i + 1, metadata, [descriptor_map EXCEPT ![pos + 1] = i])

\* partial_deauthorize: the transparent bundle is rebuilt without its
\* authorization, the sapling bundle is kept; None when the transparent
\* bundle cannot be rebuilt.
partial_deauthorize(tx_data) ==
    IF tx_data.transparent_ok THEN Some(tx_data) ELSE None

signature_hash_with_sigs(unauth_tx_data) ==
    <<"sighash", unauth_tx_data.body,
      [i \in 1..Len(unauth_tx_data.spends) |-> unauth_tx_data.spends[i].nullifier],
      unauth_tx_data.transparent_ok,
      [i \in 1..Len(unauth_tx_data.spends) |-> unauth_tx_data.spends[i].spend_auth_sig.nonce]>>

\* unauth_tx_data.digest(TxIdDigester) and signature_hash(.., Shielded, ..):
\* a digest of the non-authorizing content.
signature_hash(unauth_tx_data) ==
    <<"sighash", unauth_tx_data.body,
      [i \in 1..Len(unauth_tx_data.spends) |-> unauth_tx_data.spends[i].nullifier],
      unauth_tx_data.transparent_ok>>

\* spend_sig(pk, alpha, sighash, rng): a signature by pk re-randomized with
\* alpha over sighash, with a nonce drawn from rng.
spend_sig(pk, alpha, sighash, nonce) ==
    [ask |-> pk, alpha |-> alpha, msg |-> sighash, nonce |-> nonce]

AlphaIndexNext(tx_pos) == tx_pos + 1

AlphaIndexFirst(tx_pos) == 0

\* The index masp_sign hands to bparams.spend_alpha for position tx_pos.
AlphaIndex(tx_pos) == tx_pos

\* The signing loop over descriptor_map.iter().enumerate(), from tx_pos on.
\* st carries the provider, the generator, the authorization map and the
\* indices asked of the provider so far.
RECURSIVE SignEach(_, _, _, _, _)
SignEach(tx_pos, n, pk, sighash, st) ==
    IF tx_pos >= n THEN st
    ELSE LET a == spend_alpha(st.bparams, st.rng, AlphaIndex(tx_pos))
             sig == spend_sig(pk, a.alpha, sighash, a.rng)
         IN SignEach(tx_pos + 1, n, pk, sighash,
                     [bparams |-> a.bparams,
                      rng |-> a.rng + 1,
                      authorizations |-> (tx_pos :> sig) @@ st.authorizations,
                      asked |-> Append(st.asked, AlphaIndex(tx_pos))])

\* What a masp_sign call leaves behind when it does not reach the signing
\* loop: the transaction, the provider and the generator as they were.
Outcome(ret, tx, bparams, rng) ==
    [ret |-> ret, tx |-> tx, bparams |-> bparams, rng |-> rng,
     authorizations |-> <<>>, asked |-> <<>>, descriptor_map |-> <<>>,
     sighash |-> <<>>, pk |-> <<>>]

NoShieldedHashDraws(tx, bparams, rng) ==
    LET a == spend_alpha(bparams, rng, 0)
    IN [Outcome("Ok", tx, a.bparams, a.rng) EXCEPT !.asked = <<0>>]

\* masp_sign when signing_data.shielded_hash is None: Ok(()).
NoShieldedHash(tx, bparams, rng) == Outcome("Ok", tx, bparams, rng)

\* masp_sign when signing_data.shielded_hash is Some(shielded_hash).
SignShielded(tx, shielded_hash, bparams, rng) ==
    IF get_masp_section(tx, shielded_hash) = None
    THEN Outcome("panic: Expected to find the indicated MASP Transaction", tx, bparams, rng)
    ELSE IF get_masp_builder(tx, shielded_hash) = None
    THEN Outcome("panic: Expected to find the indicated MASP Builder", tx, bparams, rng)
    ELSE
    LET masp_tx == get_masp_section(tx, shielded_hash)[1]
        masp_builder == get_masp_builder(tx, shielded_hash)[1]
        sapling_inputs == masp_builder.sapling_inputs
        inv == InvertMetadata(0, masp_builder.spend_indices,
                              [i \in 1..Len(sapling_inputs) |-> 0])
    IN IF inv.panic
       THEN Outcome("panic: index out of bounds", tx, bparams, rng)
       ELSE IF partial_deauthorize(masp_tx) = None
       THEN Outcome("panic: called Option::unwrap() on a None value", tx, bparams, rng)
       ELSE
       LET unauth_tx_data == partial_deauthorize(masp_tx)[1]
           sighash == signature_hash(unauth_tx_data)
           pk == Ask(HardcodedXsk)
           st == SignEach(0, Len(inv.descriptor_map), pk, sighash,
                          [bparams |-> bparams, rng |-> rng,
                           authorizations |-> <<>>, asked |-> <<>>])
           authorized == map_authorization(masp_tx, st.authorizations)
       IN [ret |-> "Ok",
           tx |-> add_section(remove_masp_section(tx, shielded_hash), authorized),
           bparams |-> st.bparams,
           rng |-> st.rng,
           authorizations |-> st.authorizations,
           asked |-> st.asked,
           descriptor_map |-> inv.descriptor_map,
           sighash |-> sighash,
           pk |-> pk]

\* masp_sign(tx, signing_data, bparams), with the generator's state.
masp_sign(tx, signing_data, bparams, rng) ==
    IF signing_data.shielded_hash # None
    THEN SignShielded(tx, signing_data.shielded_hash[1], bparams, rng)
    ELSE NoShieldedHash(tx, bparams, rng)

---------------------------------------------------------------------------
(* The decoders: Borsh payloads into argument descriptors *)

\* A byte string: the Borsh encoding of a message, or bytes that are the
\* encoding of none.
Borsh(msg) == <<"borsh", msg>>
Garbage == <<"garbage">>

\* The result of a parser: the value, or its error.
Parsed(v) == [ok |-> TRUE, v |-> v]
Unparsed == [ok |-> FALSE, v |-> <<>>]

\* The end of a decoder: Ok(args), Err(JsError) through `?`, or the panic of
\* an expect(), which returns nothing.
NoArgs == <<>>
DecodeOk(args) == [kind |-> "Ok", err |-> "", args |-> args]
DecodeErr(err) == [kind |-> "Err", err |-> err, args |-> NoArgs]
DecodePanic(msg) == [kind |-> "panic", err |-> msg, args |-> NoArgs]

\* <Msg>::try_from_slice of the Borsh derive.
try_from_slice(bytes) == IF bytes[1] = "borsh" THEN Parsed(bytes[2]) ELSE Unparsed

\* The strings the external parsers accept.
WellFormedAddresses == {"tnam1q-token", "tnam1q-validator", "tnam1q-source"}
WellFormedPaymentAddresses == {"znam1-target"}
WellFormedAmounts == {"1.5"}
WellFormedGasLimits == {"20000"}
WellFormedPublicKeys == {"tpknam1-signer"}
WellFormedPortIds == {"transfer"}
WellFormedChannelIds == {"channel-0"}

Address_from_str(s) ==
    IF s \in WellFormedAddresses THEN Parsed(<<"Address", s>>) ELSE Unparsed

PaymentAddress_from_str(s) ==
    IF s \in WellFormedPaymentAddresses THEN Parsed(<<"PaymentAddress", s>>) ELSE Unparsed

DenominatedAmount_from_str(s) ==
    IF s \in WellFormedAmounts THEN Parsed(<<"DenominatedAmount", s>>) ELSE Unparsed

GasLimit_from_str(s) ==
    IF s \in WellFormedGasLimits THEN Parsed(<<"GasLimit", s>>) ELSE Unparsed

PublicKey_from_str(s) ==
    IF s \in WellFormedPublicKeys THEN Parsed(<<"PublicKey", s>>) ELSE Unparsed

PortId_from_str(s) ==
    IF s \in WellFormedPortIds THEN Parsed(<<"PortId", s>>) ELSE Unparsed

ChannelId_from_str(s) ==
    IF s \in WellFormedChannelIds THEN Parsed(<<"ChannelId", s>>) ELSE Unparsed

\* PseudoExtendedKey::try_from_slice: the viewing key and the
\* spend-authorizing key the bytes carry.
PseudoExtendedKey_try_from_slice(bytes) ==
    IF bytes[1] = "borsh"
    THEN Parsed([xfvk |-> bytes[2].xfvk, ask |-> <<"PrivateKey", bytes[2].ask>>])
    ELSE Unparsed

\* source.augment_spend_authorizing_key_unchecked(PrivateKey(jubjub::Fr::default())).
augment_spend_authorizing_key_unchecked(key) ==
    [key EXCEPT !.ask = <<"PrivateKey", "Fr::default">>]

\* IbcShieldingData::try_from_slice.
IbcShieldingData_try_from_slice(bytes) ==
    IF bytes[1] = "borsh" THEN Parsed(<<"IbcShieldingData", bytes[2]>>) ELSE Unparsed

\* tx_msg_into_args: the envelope builder.
tx_msg_into_args(tx_msg) ==
    LET m == try_from_slice(tx_msg) IN
    IF ~m.ok THEN DecodeErr("JsError: WrapperTxMsg::try_from_slice") ELSE
    LET token == Address_from_str(m.v.token) IN
    IF ~token.ok THEN DecodeErr("JsError: Address::from_str") ELSE
    LET fee_amount == DenominatedAmount_from_str(m.v.fee_amount) IN
    IF ~fee_amount.ok THEN DecodePanic("Fee amount has to be valid.") ELSE
    LET public_key == IF m.v.public_key = None THEN Parsed(None)
                      ELSE LET pk == PublicKey_from_str(m.v.public_key[1])
                           IN IF pk.ok THEN Parsed(Some(pk.v)) ELSE Unparsed
    IN
    IF ~public_key.ok THEN DecodeErr("JsError: PublicKey::from_str") ELSE
    LET gas_limit == GasLimit_from_str(m.v.gas_limit) IN
    IF ~gas_limit.ok THEN DecodePanic("Gas limit to be valid") ELSE
    DecodeOk([fee_amount |-> Some(<<"Unvalidated", fee_amount.v>>),
              fee_token |-> token.v,
              gas_limit |-> gas_limit.v,
              chain_id |-> Some(<<"ChainId", m.v.chain_id>>),
              signing_keys |-> IF public_key.v = None THEN <<>> ELSE <<public_key.v[1]>>,
              use_device |-> FALSE,
              memo |-> IF m.v.memo = None THEN None ELSE Some(<<"bytes", m.v.memo[1]>>)])

tx_args_from_slice(tx_msg_bytes) == tx_msg_into_args(tx_msg_bytes)

claim_rewards_source_lenient(source) ==
    IF source = None THEN Parsed(None)
    ELSE LET a == Address_from_str(source[1])
         IN IF a.ok THEN Parsed(Some(a.v)) ELSE Parsed(None)

\* source.map(|str| Address::from_str(&str).expect("valid address")):
\* unparsed stands for the panic of the expect.
claim_rewards_source(source) ==
    IF source = None THEN Parsed(None)
    ELSE LET a == Address_from_str(source[1])
         IN IF a.ok THEN Parsed(Some(a.v)) ELSE Unparsed

claim_rewards_tx_args(claim_rewards_msg, tx_msg) ==
    LET m == try_from_slice(claim_rewards_msg) IN
    IF ~m.ok THEN DecodeErr("JsError: ClaimRewardsMsg::try_from_slice") ELSE
    LET tx_args == tx_msg_into_args(tx_msg) IN
    IF tx_args.kind # "Ok" THEN tx_args ELSE
    LET validator_address == Address_from_str(m.v.validator) IN
    IF ~validator_address.ok THEN DecodeErr("JsError: Address::from_str") ELSE
    LET source_address == claim_rewards_source(m.v.source) IN
    IF ~source_address.ok THEN DecodePanic("valid address") ELSE
    DecodeOk([tx |-> tx_args.args,
              validator |-> validator_address.v,
              source |-> source_address.v,
              tx_code_path |-> "tx_claim_rewards.wasm"])

\* The loop `for shielded_transfer in data` from leg i on; acc holds the
\* legs pushed so far.
RECURSIVE ShieldedLegs(_, _, _)
ShieldedLegs(data, i, acc) ==
    IF i > Len(data) THEN DecodeOk(acc) ELSE
    LET source == PseudoExtendedKey_try_from_slice(data[i].source) IN
    IF ~source.ok THEN DecodeErr("JsError: PseudoExtendedKey::try_from_slice") ELSE
    LET target == PaymentAddress_from_str(data[i].target) IN
    IF ~target.ok THEN DecodeErr("JsError: PaymentAddress::from_str") ELSE
    LET token == Address_from_str(data[i].token) IN
    IF ~token.ok THEN DecodeErr("JsError: Address::from_str") ELSE
    LET denom_amount == DenominatedAmount_from_str(data[i].amount) IN
    IF ~denom_amount.ok THEN DecodePanic("Amount to be valid.") ELSE
    ShieldedLegs(data, i + 1,
                 Append(acc, [source |-> augment_spend_authorizing_key_unchecked(source.v),
                              target |-> target.v,
                              token |-> token.v,
                              amount |-> <<"Unvalidated", denom_amount.v>>]))

\* The loop `for sk in gas_spending_keys` from key i on.
RECURSIVE GasSpendingKeys(_, _, _)
GasSpendingKeys(gas_spending_keys, i, gsk) ==
    IF i > Len(gas_spending_keys) THEN DecodeOk(gsk) ELSE
    LET gas_spending_key == PseudoExtendedKey_try_from_slice(gas_spending_keys[i]) IN
    IF ~gas_spending_key.ok THEN DecodeErr("JsError: PseudoExtendedKey::try_from_slice") ELSE
    GasSpendingKeys(gas_spending_keys, i + 1, Append(gsk, gas_spending_key.v))

shielded_transfer_tx_args(shielded_transfer_msg, tx_msg) ==
    LET m == try_from_slice(shielded_transfer_msg) IN
    IF ~m.ok THEN DecodeErr("JsError: ShieldedTransferMsg::try_from_slice") ELSE
    LET shielded_transfer_data == ShieldedLegs(m.v.data, 1, <<>>) IN
    IF shielded_transfer_data.kind # "Ok" THEN shielded_transfer_data ELSE
    LET tx_args == tx_msg_into_args(tx_msg) IN
    IF tx_args.kind # "Ok" THEN tx_args ELSE
    LET gsk == GasSpendingKeys(m.v.gas_spending_keys, 1, <<>>) IN
    IF gsk.kind # "Ok" THEN gsk ELSE
    DecodeOk([data |-> shielded_transfer_data.args,
              tx |-> tx_args.args,
              tx_code_path |-> "tx_transfer.wasm",
              disposable_signing_key |-> FALSE,
              gas_spending_keys |-> gsk.args])

\* The loop `for unshielding_transfer in data` from leg i on.
RECURSIVE UnshieldingLegs(_, _, _)
UnshieldingLegs(data, i, acc) ==
    IF i > Len(data) THEN DecodeOk(acc) ELSE
    LET target == Address_from_str(data[i].target) IN
    IF ~target.ok THEN DecodeErr("JsError: Address::from_str") ELSE
    LET token == Address_from_str(data[i].token) IN
    IF ~token.ok THEN DecodeErr("JsError: Address::from_str") ELSE
    LET denom_amount == DenominatedAmount_from_str(data[i].amount) IN
    IF ~denom_amount.ok THEN DecodePanic("Amount to be valid.") ELSE
    UnshieldingLegs(data, i + 1,
                    Append(acc, [target |-> target.v,
                                 token |-> token.v,
                                 amount |-> <<"Unvalidated", denom_amount.v>>]))

\* The payload's gas_spending_keys are destructured and not used: the
\* descriptor is built with `gas_spending_keys: vec![]`.
unshielding_transfer_tx_args(unshielding_transfer_msg, tx_msg) ==
    LET m == try_from_slice(unshielding_transfer_msg) IN
    IF ~m.ok THEN DecodeErr("JsError: UnshieldingTransferMsg::try_from_slice") ELSE
    LET source == PseudoExtendedKey_try_from_slice(m.v.source) IN
    IF ~source.ok THEN DecodeErr("JsError: PseudoExtendedKey::try_from_slice") ELSE
    LET unshielding_transfer_data == UnshieldingLegs(m.v.data, 1, <<>>) IN
    IF unshielding_transfer_data.kind # "Ok" THEN unshielding_transfer_data ELSE
    LET tx_args == tx_msg_into_args(tx_msg) IN
    IF tx_args.kind # "Ok" THEN tx_args ELSE
    DecodeOk([data |-> unshielding_transfer_data.args,
              source |-> source.v,
              tx |-> tx_args.args,
              gas_spending_keys |-> <<>>,
              disposable_signing_key |-> FALSE,
              tx_code_path |-> "tx_transfer.wasm"])

ibc_transfer_tx_args(ibc_transfer_msg, tx_msg) ==
    LET m == try_from_slice(ibc_transfer_msg) IN
    IF ~m.ok THEN DecodeErr("JsError: IbcTransferMsg::try_from_slice") ELSE
    LET source_address == Address_from_str(m.v.source) IN
    IF ~source_address.ok THEN DecodeErr("JsError: Address::from_str") ELSE
    LET token == Address_from_str(m.v.token) IN
    IF ~token.ok THEN DecodeErr("JsError: Address::from_str") ELSE
    LET denom_amount == DenominatedAmount_from_str(m.v.amount) IN
    IF ~denom_amount.ok THEN DecodePanic("Amount to be valid.") ELSE
    LET port_id == PortId_from_str(m.v.port_id) IN
    IF ~port_id.ok THEN DecodePanic("Port id to be valid") ELSE
    LET channel_id == ChannelId_from_str(m.v.channel_id) IN
    IF ~channel_id.ok THEN DecodePanic("Channel id to be valid") ELSE
    LET ibc_shielding_data ==
            IF m.v.shielding_data = None THEN Parsed(None)
            ELSE LET d == IbcShieldingData_try_from_slice(m.v.shielding_data[1])
                 IN IF d.ok THEN Parsed(Some(d.v)) ELSE Unparsed
    IN
    IF ~ibc_shielding_data.ok THEN DecodeErr("JsError: IbcShieldingData::try_from_slice") ELSE
    LET tx_args == tx_msg_into_args(tx_msg) IN
    IF tx_args.kind # "Ok" THEN tx_args ELSE
    DecodeOk([tx |-> tx_args.args,
              ibc_memo |-> m.v.memo,
              ibc_shielding_data |-> ibc_shielding_data.v,
              source |-> <<"TransferSource::Address", source_address.v>>,
              receiver |-> m.v.receiver,
              token |-> token.v,
              amount |-> <<"Unvalidated", denom_amount.v>>,
              port_id |-> port_id.v,
              channel_id |-> channel_id.v,
              timeout_height |-> m.v.timeout_height,
              timeout_sec_offset |-> m.v.timeout_sec_offset,
              disposable_signing_key |-> FALSE,
              tx_code_path |-> "tx_ibc.wasm",
              refund_target |-> None,
              gas_spending_keys |-> <<>>])

---------------------------------------------------------------------------
(* State *)

VARIABLES
    orig,      \* the transaction as construction produced it
    tx,        \* tx[c]: caller c's transaction object
    bparams,   \* bparams[c]: caller c's parameter provider, None before one is generated
    rng,       \* OsRng: the next fresh value
    calls,     \* masp_sign calls made so far
    signed,    \* signed[c]: caller c's successful masp_sign calls on a shielded hash
    last,      \* the last operation: its inputs, its result, what it computed
    decoded    \* the decode call: its payloads and, once it has run, what it returned

vars == <<orig, tx, bparams, rng, calls, signed, last, decoded>>

\* spend_indices of the metadata of a builder with m inputs: at most
\* MaxSpends entries, each a position of 0..m-1 or the first position past
\* them (m), in any order and with repetitions.
Metadatas(m) == UNION {[1..k -> 0..m] : k \in 0..MaxSpends}

Insertions(base, section) ==
    {SubSeq(base, 1, k) \o <<section>> \o SubSeq(base, k + 1, Len(base)) : k \in 0..Len(base)}

MaspTxSections == {MaspTxSection(n, t) : n \in 0..MaxSpends, t \in BOOLEAN}

MaspBuilderSections(masp) ==
    UNION {{MaspBuilderSection(txid(masp), m, md) : md \in Metadatas(m)} : m \in 0..MaxSpends}

\* The section lists without the MaspTx section: a data and a code section,
\* with or without the builder section of masp between them.
Bases(masp) ==
    {<<DataSection, CodeSection>>}
        \cup {<<DataSection, b, CodeSection>> : b \in MaspBuilderSections(masp)}

\* The transactions handed to masp_sign: at most one MaspTx section, at any
\* place in the section list, and at most one MaspBuilder section; the
\* builder's input count and metadata need not agree with the section.
InitTxs ==
    UNION {Bases(masp) \cup UNION {Insertions(base, masp) : base \in Bases(masp)}
           : masp \in MaspTxSections}

\* The section identifiers a signing context for transaction t can carry.
HashesOf(t) ==
    {txid(t[i]) : i \in {j \in 1..Len(t) : t[j].kind = "MaspTx"}}
        \cup {t[i].target : i \in {j \in 1..Len(t) : t[j].kind = "MaspBuilder"}}

SigningDatas(t) == {[shielded_hash |-> None]} \cup {[shielded_hash |-> Some(h)] : h \in HashesOf(t)}

\* The extended spending key each caller holds for its signing calls.
SuppliedXsk(c) == IF c = "c1" THEN "zsknam1-key-of-c1" ELSE "zsknam1-key-of-c2"

NoCall ==
    [op |-> "init", caller |-> "", ret |-> "", signing_data |-> [shielded_hash |-> None],
     supplied_xsk |-> "", use_device |-> FALSE,
     pre_tx |-> <<>>, pre_bparams |-> <<>>, pre_rng |-> 0,
     authorizations |-> <<>>, asked |-> <<>>, descriptor_map |-> <<>>,
     sighash |-> <<>>, pk |-> <<>>]

\* The return slot of a decode call that has not run.
NoReturn == [kind |-> "none", err |-> "", args |-> NoArgs]

\* No decode call.
NoDecode == [op |-> "none", msg |-> <<>>, tx_msg |-> <<>>, done |-> FALSE, ret |-> NoReturn]

Init ==
    /\ orig \in InitTxs
    /\ tx = [c \in Callers |-> orig]
    /\ bparams = [c \in Callers |-> None]
    /\ rng = 0
    /\ calls = 0
    /\ signed = [c \in Callers |-> 0]
    /\ last = NoCall
    /\ decoded = NoDecode

\* The number of spend descriptors of transaction t.
SpendLen(t) ==
    LET masps == {i \in 1..Len(t) : t[i].kind = "MaspTx"}
    IN IF masps = {} THEN 0 ELSE Len(t[CHOOSE i \in masps : TRUE].spends)

\* Caller c obtains a provider for an envelope with the given use_device; the
\* counts it passes are those of its transaction.
GenerateMaspBuildParams(c) ==
    /\ calls < MaxCalls
    /\ \E use_device \in BOOLEAN :
        LET r == generate_masp_build_params(SpendLen(tx[c]), 0, Len(tx[c]), use_device)
        IN /\ bparams' = [bparams EXCEPT ![c] = IF r.ok THEN Some(r.params) ELSE @]
           /\ last' = [NoCall EXCEPT !.op = "generate_masp_build_params", !.caller = c,
                                     !.ret = IF r.ok THEN "Ok" ELSE r.err,
                                     !.use_device = use_device]
           /\ UNCHANGED <<orig, tx, rng, calls, signed, decoded>>

\* Caller c runs masp_sign on its transaction with its provider; r is the
\* call's outcome.  A panic leaves every argument as it was.
MaspSign(c) ==
    /\ calls < MaxCalls
    /\ bparams[c] # None
    /\ \E signing_data \in SigningDatas(orig) :
        \E r \in {masp_sign(tx[c], signing_data, bparams[c][1], rng)} :
           /\ tx' = [tx EXCEPT ![c] = r.tx]
           /\ bparams' = [bparams EXCEPT ![c] = Some(r.bparams)]
           /\ rng' = r.rng
           /\ calls' = calls + 1
           /\ signed' = [signed EXCEPT ![c] =
                            IF r.ret = "Ok" /\ signing_data.shielded_hash # None THEN @ + 1 ELSE @]
           /\ last' = [op |-> "masp_sign", caller |-> c, ret |-> r.ret,
                       signing_data |-> signing_data, supplied_xsk |-> SuppliedXsk(c),
                       use_device |-> FALSE,
                       pre_tx |-> tx[c], pre_bparams |-> bparams[c][1], pre_rng |-> rng,
                       authorizations |-> r.authorizations, asked |-> r.asked,
                       descriptor_map |-> r.descriptor_map,
                       sighash |-> r.sighash, pk |-> r.pk]
           /\ UNCHANGED <<orig, decoded>>

Next == \E c \in Callers : GenerateMaspBuildParams(c) \/ MaspSign(c)

Spec == Init /\ [][Next]_vars

---------------------------------------------------------------------------
(* The decoders' inputs and the decode calls *)

\* The sequences over S of length at most n.
SeqsUpTo(S, n) == UNION {[1..k -> S] : k \in 0..n}

\* The envelope messages: every field well-formed or not.
WrapperTxMsgs ==
    [token : {"tnam1q-token", "not-an-address"},
     fee_amount : {"1.5", "one"},
     gas_limit : {"20000", "lots"},
     chain_id : {"namada-test"},
     public_key : {None, Some("tpknam1-signer"), Some("not-a-key")},
     memo : {None, Some("memo")}]

Envelopes == {Garbage} \cup {Borsh(m) : m \in WrapperTxMsgs}

\* The fields of envelope message m the parsers reject.
MalformedFields(m) ==
    {f \in {"token", "fee_amount", "gas_limit", "public_key"} :
        \/ f = "token" /\ m.token \notin WellFormedAddresses
        \/ f = "fee_amount" /\ m.fee_amount \notin WellFormedAmounts
        \/ f = "gas_limit" /\ m.gas_limit \notin WellFormedGasLimits
        \/ f = "public_key" /\ m.public_key # None /\ m.public_key[1] \notin WellFormedPublicKeys}

\* The envelopes paired with the transfer payloads: no memo and at most one
\* malformed field.
TransferEnvelopes ==
    {Garbage} \cup {Borsh(m) : m \in {w \in WrapperTxMsgs :
                                        w.memo = None /\ Cardinality(MalformedFields(w)) <= 1}}

\* Serialized extended spending keys, and bytes that are no key.
KeyBytes ==
    {Borsh([xfvk |-> "zvknam1-A", ask |-> "dummy-A"]),
     Borsh([xfvk |-> "zvknam1-B", ask |-> "dummy-B"]),
     Garbage}

ClaimRewardsMsgs ==
    {Garbage} \cup
    {Borsh(m) : m \in [validator : {"tnam1q-validator", "not-an-address"},
                       source : {None, Some("tnam1q-source"), Some("not-an-address")}]}

ShieldedTransferDataMsgs ==
    [source : KeyBytes, target : {"znam1-target", "not-a-payment-address"}, token : {"tnam1q-token"},
     amount : {"1.5", "one"}]

ShieldedTransferMsg(data, gas_spending_keys) ==
    Borsh([data |-> data, gas_spending_keys |-> gas_spending_keys])

UnshieldingTransferDataMsgs ==
    [target : {"tnam1q-source", "not-an-address"}, token : {"tnam1q-token"},
     amount : {"1.5", "one"}]

UnshieldingTransferMsg(source, data, gas_spending_keys) ==
    Borsh([source |-> source, data |-> data, gas_spending_keys |-> gas_spending_keys])

IbcTransferMsgs ==
    {Garbage} \cup
    {Borsh(m) : m \in [source : {"tnam1q-source", "not-an-address"},
                       receiver : {"cosmos1-receiver"},
                       token : {"tnam1q-token"},
                       amount : {"1.5", "one"},
                       port_id : {"transfer", "not/a/port"},
                       channel_id : {"channel-0", "not-a-channel"},
                       timeout_height : {None},
                       timeout_sec_offset : {None, Some(60)},
                       memo : {None},
                       shielding_data : {None, Some(Borsh("shielding-data")), Some(Garbage)}]}

\* A decode call that has its two payloads and has not run yet.
DecodeCall(op, msg, tx_msg) ==
    [op |-> op, msg |-> msg, tx_msg |-> tx_msg, done |-> FALSE, ret |-> NoReturn]

\* The decode calls: a decoder with a kind payload and an envelope payload.
\* The transfer payloads are garbage or carry at most MaxLegs legs and at
\* most MaxGasKeys gas spending keys.
IsDecodeCall(call) ==
    \/ \E e \in Envelopes : call = DecodeCall("tx_args_from_slice", <<>>, e)
    \/ \E m \in ClaimRewardsMsgs, e \in Envelopes :
          call = DecodeCall("claim_rewards_tx_args", m, e)
    \/ \E e \in TransferEnvelopes :
          \/ call = DecodeCall("shielded_transfer_tx_args", Garbage, e)
          \/ \E d \in SeqsUpTo(ShieldedTransferDataMsgs, MaxLegs),
                g \in SeqsUpTo(KeyBytes, MaxGasKeys) :
                call = DecodeCall("shielded_transfer_tx_args", ShieldedTransferMsg(d, g), e)
    \/ \E e \in TransferEnvelopes :
          \/ call = DecodeCall("unshielding_transfer_tx_args", Garbage, e)
          \/ \E s \in KeyBytes, d \in SeqsUpTo(UnshieldingTransferDataMsgs, MaxLegs),
                g \in SeqsUpTo(KeyBytes, MaxGasKeys) :
                call = DecodeCall("unshielding_transfer_tx_args",
                                  UnshieldingTransferMsg(s, d, g), e)
    \/ \E m \in IbcTransferMsgs, e \in TransferEnvelopes :
          call = DecodeCall("ibc_transfer_tx_args", m, e)

\* The decoders are pure: a call is handed its payloads and returns; the
\* transaction and the providers play no part.
InitDecode ==
    /\ orig = <<DataSection, CodeSection>>
    /\ tx = [c \in Callers |-> orig]
    /\ bparams = [c \in Callers |-> None]
    /\ rng = 0
    /\ calls = 0
    /\ signed = [c \in Callers |-> 0]
    /\ last = NoCall
    /\ IsDecodeCall(decoded)

\* The call of tx_args_from_slice runs and returns.
TxArgsFromSlice ==
    /\ ~decoded.done
    /\ decoded.op = "tx_args_from_slice"
    /\ decoded' = [decoded EXCEPT !.done = TRUE,
                                  !.ret = tx_args_from_slice(decoded.tx_msg)]
    /\ UNCHANGED <<orig, tx, bparams, rng, calls, signed, last>>

\* The call of claim_rewards_tx_args runs and returns.
ClaimRewardsTxArgs ==
    /\ ~decoded.done
    /\ decoded.op = "claim_rewards_tx_args"
    /\ decoded' = [decoded EXCEPT !.done = TRUE,
                                  !.ret = claim_rewards_tx_args(decoded.msg, decoded.tx_msg)]
    /\ UNCHANGED <<orig, tx, bparams, rng, calls, signed, last>>

\* The call of shielded_transfer_tx_args runs and returns.
ShieldedTransferTxArgs ==
    /\ ~decoded.done
    /\ decoded.op = "shielded_transfer_tx_args"
    /\ decoded' = [decoded EXCEPT !.done = TRUE,
                                  !.ret = shielded_transfer_tx_args(decoded.msg, decoded.tx_msg)]
    /\ UNCHANGED <<orig, tx, bparams, rng, calls, signed, last>>

\* The call of unshielding_transfer_tx_args runs and returns.
UnshieldingTransferTxArgs ==
    /\ ~decoded.done
    /\ decoded.op = "unshielding_transfer_tx_args"
    /\ decoded' = [decoded EXCEPT !.done = TRUE,
                                  !.ret = unshielding_transfer_tx_args(decoded.msg, decoded.tx_msg)]
    /\ UNCHANGED <<orig, tx, bparams, rng, calls, signed, last>>

\* The call of ibc_transfer_tx_args runs and returns.
IbcTransferTxArgs ==
    /\ ~decoded.done
    /\ decoded.op = "ibc_transfer_tx_args"
    /\ decoded' = [decoded EXCEPT !.done = TRUE,
                                  !.ret = ibc_transfer_tx_args(decoded.msg, decoded.tx_msg)]
    /\ UNCHANGED <<orig, tx, bparams, rng, calls, signed, last>>

NextDecode ==
    \/ TxArgsFromSlice
    \/ ClaimRewardsTxArgs
    \/ ShieldedTransferTxArgs
    \/ UnshieldingTransferTxArgs
    \/ IbcTransferTxArgs

SpecDecode == InitDecode /\ [][NextDecode]_vars

---------------------------------------------------------------------------
(* Vocabulary of the properties *)

\* The last operation was a masp_sign call.
SignCalled == last.op = "masp_sign"

\* ... whose signing context names a confidential section.
ShieldedCalled == SignCalled /\ last.signing_data.shielded_hash # None

\* ... and which returned Ok(()).
ShieldedOk == ShieldedCalled /\ last.ret = "Ok"

\* The caller's transaction as the last call left it.
PostTx == tx[last.caller]

\* The section identifier of the last call's signing context.
LastHash == last.signing_data.shielded_hash[1]

\* The confidential section before and after the last call.
OldSection == get_masp_section(last.pre_tx, LastHash)[1]
NewSection == get_masp_section(PostTx, LastHash)[1]

\* The positions of the spend descriptors of a MaspTx section.
Positions(section) == 0..(Len(section.spends) - 1)

SigAt(section, p) == section.spends[p + 1].spend_auth_sig

\* The sections of t other than the confidential section hash, in order.
OtherSections(t, hash) ==
    SelectSeq(t, LAMBDA section : ~(section.kind = "MaspTx" /\ txid(section) = hash))

Range(f) == {f[x] : x \in DOMAIN f}

\* A transaction without its spend authorization signatures.
NonSig(t) ==
    [i \in 1..Len(t) |->
        IF t[i].kind = "MaspTx"
        THEN [t[i] EXCEPT !.spends =
                 [j \in 1..Len(t[i].spends) |->
                     [nullifier |-> t[i].spends[j].nullifier,
                      zkproof |-> t[i].spends[j].zkproof]]]
        ELSE t[i]]

---------------------------------------------------------------------------
(* Properties *)

\* C1: a masp_sign call whose signing context has no shielded_hash returns
\* Ok and changes nothing: the transaction has the same sections in the same
\* order, no signature is made, and the provider is asked for nothing (its
\* state and the generator's are as before).
C1_NoShieldedHashIsNoOp ==
    (SignCalled /\ last.signing_data.shielded_hash = None) =>
        /\ last.ret = "Ok"
        /\ PostTx = last.pre_tx
        /\ last.authorizations = <<>>
        /\ last.asked = <<>>
        /\ bparams[last.caller] = Some(last.pre_bparams)
        /\ rng = last.pre_rng

\* C1 witness: such a call was made on a transaction that does hold a
\* confidential section with spend descriptors.
C1_Witness ==
    /\ SignCalled
    /\ last.signing_data.shielded_hash = None
    /\ \E i \in 1..Len(last.pre_tx) :
          last.pre_tx[i].kind = "MaspTx" /\ Len(last.pre_tx[i].spends) >= 1

\* C2: masp_sign is all-or-nothing: after any call the transaction is either
\* exactly as it was, or the call returned Ok and every spend descriptor of
\* the confidential section carries a signature made by this call; a call
\* that fails leaves the transaction as it was.
C2_AllOrNothing ==
    SignCalled =>
        /\ last.ret # "Ok" => PostTx = last.pre_tx
        /\ \/ PostTx = last.pre_tx
           \/ /\ ShieldedOk
              /\ get_masp_section(PostTx, LastHash) # None
              /\ \A p \in Positions(NewSection) :
                    SigAt(NewSection, p) \in Range(last.authorizations)

\* C3: every signature masp_sign makes is made with the spend-authorizing
\* secret of the extended spending key the caller supplied for that call.
C3_SignsWithSuppliedKey ==
    SignCalled =>
        \A p \in DOMAIN last.authorizations :
            last.authorizations[p].ask = Ask(last.supplied_xsk)

\* C4: after a successful masp_sign on a confidential section with n spend
\* descriptors the authorization map has exactly the keys 0..n-1 and every
\* spend descriptor carries the map's signature for its own position.
C4_EveryPositionSigned ==
    ShieldedOk =>
        /\ DOMAIN last.authorizations = Positions(NewSection)
        /\ \A p \in Positions(NewSection) :
              /\ p \in DOMAIN last.authorizations
              /\ SigAt(NewSection, p) = last.authorizations[p]
              /\ SigAt(NewSection, p).ask # PlaceholderSig(p).ask

\* C5: within one masp_sign call the provider is asked once for each signed
\* position and for nothing else, and the blinding factors of the signatures
\* of two different positions differ, although all are made with one secret.
C5_DistinctBlindingFactors ==
    SignCalled =>
        /\ Len(last.asked) = Cardinality(DOMAIN last.authorizations)
        /\ Range(last.asked) = DOMAIN last.authorizations
        /\ \A i, j \in 1..Len(last.asked) : i # j => last.asked[i] # last.asked[j]
        /\ \A p, q \in DOMAIN last.authorizations :
              p # q => /\ last.authorizations[p].alpha # last.authorizations[q].alpha
                       /\ last.authorizations[p].ask = last.authorizations[q].ask

\* C5 witness: a call that signed at least two positions.
C5_Witness == SignCalled /\ Cardinality(DOMAIN last.authorizations) >= 2

\* C6: when the signing context names a confidential section and the
\* transaction lacks that section or its builder, masp_sign returns the
\* error value MissingSectionError and the transaction is unchanged.
C6_MissingSectionError ==
    (/\ ShieldedCalled
     /\ \/ get_masp_section(last.pre_tx, LastHash) = None
        \/ get_masp_builder(last.pre_tx, LastHash) = None)
        => /\ last.ret = "MissingSectionError"
           /\ PostTx = last.pre_tx

\* C7: masp_sign never returns Ok while a spend descriptor of the
\* confidential section is at a position the authorization map does not
\* cover (such a call reports ConsistencyError instead).
C7_NoSilentPlaceholder ==
    ShieldedOk =>
        \A p \in Positions(NewSection) : p \in DOMAIN last.authorizations

\* C8: after a successful masp_sign on a shielded hash the transaction has as
\* many sections as before, exactly one confidential section of that hash,
\* which is the last section and carries the call's signatures (so the old
\* one is gone whenever a signature was replaced), and the other sections
\* are as before, in the same order.
C8_SectionSwap ==
    ShieldedOk =>
        /\ Len(PostTx) = Len(last.pre_tx)
        /\ Cardinality({i \in 1..Len(PostTx) :
                           PostTx[i].kind = "MaspTx" /\ txid(PostTx[i]) = LastHash}) = 1
        /\ PostTx[Len(PostTx)] = NewSection
        /\ \A p \in Positions(NewSection) \cap DOMAIN last.authorizations :
              SigAt(NewSection, p) = last.authorizations[p]
        /\ (\E p \in Positions(OldSection) \cap DOMAIN last.authorizations :
                SigAt(OldSection, p) # last.authorizations[p])
              => \A i \in 1..Len(PostTx) : PostTx[i] # OldSection
        /\ OtherSections(PostTx, LastHash) = OtherSections(last.pre_tx, LastHash)

\* C8 witness: a successful call on a transaction whose confidential section
\* was followed by other sections and whose builder section is present, with
\* a signature replaced.
C8_Witness ==
    /\ ShieldedOk
    /\ last.pre_tx[Len(last.pre_tx)].kind # "MaspTx"
    /\ Len(OtherSections(PostTx, LastHash)) >= 3
    /\ PostTx # last.pre_tx
    /\ DOMAIN last.authorizations # {}

\* C9: the mapper is a positional substitution: the signature at position p
\* becomes the authorization map's entry for p when there is one and stays
\* the existing signature otherwise; proofs, the other fields of a descriptor
\* and the section's authorization are passed through unchanged.
C9_PositionalSubstitution ==
    ShieldedOk =>
        /\ Positions(NewSection) = Positions(OldSection)
        /\ \A p \in Positions(OldSection) :
              /\ SigAt(NewSection, p) =
                    IF p \in DOMAIN last.authorizations
                    THEN last.authorizations[p] ELSE SigAt(OldSection, p)
              /\ NewSection.spends[p + 1].zkproof = OldSection.spends[p + 1].zkproof
              /\ NewSection.spends[p + 1].nullifier = OldSection.spends[p + 1].nullifier
        /\ NewSection.binding_sig = OldSection.binding_sig
        /\ \A p \in 0..MaxSpends :
              \A s \in {PlaceholderSig(p)} \cup Range(last.authorizations) :
                 /\ map_auth_sig(last.authorizations, s, p) =
                       IF p \in DOMAIN last.authorizations
                       THEN last.authorizations[p] ELSE s
                 /\ map_proof(last.authorizations, 100 + p, p) = 100 + p

\* C9 witness: a successful call whose map covers some positions of the
\* section and not others.
C9_Witness ==
    /\ ShieldedOk
    /\ \E p \in Positions(OldSection) : p \in DOMAIN last.authorizations
    /\ \E p \in Positions(OldSection) : p \notin DOMAIN last.authorizations

\* C10: two independent masp_sign calls on the same unauthorized transaction
\* give transactions equal in everything but the spend signatures, and every
\* spend signature differs between the two; a further masp_sign on an
\* authorized transaction changes the spend signatures and nothing else.
C10_ResignChangesOnlySignatures ==
    /\ (\A c \in Callers : signed[c] = 1) =>
          /\ NonSig(tx["c1"]) = NonSig(tx["c2"])
          /\ \A i \in 1..Len(orig) :
                orig[i].kind = "MaspTx" =>
                   \A p \in Positions(orig[i]) :
                      SigAt(get_masp_section(tx["c1"], txid(orig[i]))[1], p)
                         # SigAt(get_masp_section(tx["c2"], txid(orig[i]))[1], p)
    /\ (ShieldedOk /\ signed[last.caller] >= 2) =>
          /\ NonSig(PostTx) = NonSig(last.pre_tx)
          /\ \A p \in Positions(OldSection) : SigAt(NewSection, p) # SigAt(OldSection, p)

\* C11: generate_masp_build_params fails with "Device not supported" exactly
\* when the envelope has use_device set and otherwise returns a provider
\* over the secure generator that has drawn nothing yet; the outcome is the
\* same for all spend, convert and output counts.
C11_DeviceUnsupported ==
    last.op = "generate_masp_build_params" =>
        /\ (last.ret = "Device not supported") <=> last.use_device
        /\ (last.ret = "Ok") <=> ~last.use_device
        /\ last.ret = "Ok" => bparams[last.caller] = Some(RngBuildParams)
        /\ \A spend_len, convert_len, output_len \in 0..MaxSpends :
              LET r == generate_masp_build_params(spend_len, convert_len, output_len,
                                                  last.use_device)
              IN /\ r.ok <=> ~last.use_device
                 /\ r.ok => Some(r.params) = bparams[last.caller]
                 /\ (IF r.ok THEN "Ok" ELSE r.err) = last.ret

\* C11 witness: a provider was refused for a device-backed envelope although
\* the caller's transaction has spend descriptors to sign.
C11_Witness ==
    /\ last.op = "generate_masp_build_params"
    /\ last.use_device
    /\ last.ret = "Device not supported"
    /\ SpendLen(tx[last.caller]) >= 1

---------------------------------------------------------------------------
(* The metadata inversion, the signing hash and the pairing of blinding
   factors with positions *)

\* The builder section the last call read.
OldBuilder == get_masp_builder(last.pre_tx, LastHash)[1]

\* The last call found its section and its builder.
SectionsFound ==
    /\ ShieldedCalled
    /\ get_masp_section(last.pre_tx, LastHash) # None
    /\ get_masp_builder(last.pre_tx, LastHash) # None

\* The construction indices whose metadata entry is position pos.
IndicesAt(metadata, pos) == {i \in 0..(Len(metadata) - 1) : metadata[i + 1] = pos}

Max(S) == CHOOSE x \in S : \A y \in S : y <= x

\* metadata assigns the positions 0..m-1 to the indices 0..m-1, one each.
IsPermutation(metadata, m) ==
    Len(metadata) = m /\ Range(metadata) = 0..(m - 1)

\* The transaction t with the spend_indices of its builder sections replaced.
WithMetadata(t, metadata) ==
    [i \in 1..Len(t) |->
        IF t[i].kind = "MaspBuilder" THEN [t[i] EXCEPT !.spend_indices = metadata] ELSE t[i]]

\* C15: the inversion visits the construction indices in ascending order up
\* to the first index without a metadata entry and records
\* descriptor_map[pos] = i for each (so a slot holds the last index recorded
\* for it, 0 when none, and no index past the metadata's end); it panics
\* exactly when an entry lies outside the map.  For a permutation of 0..n-1
\* over n builder inputs it does not panic and descriptor_map is the inverse
\* of the metadata.
C15_MetadataInversion ==
    SectionsFound =>
        LET metadata == OldBuilder.spend_indices
            m == Len(OldBuilder.sapling_inputs)
        IN /\ (last.ret = "panic: index out of bounds")
                 <=> (\E i \in 1..Len(metadata) : metadata[i] >= m)
           /\ last.ret = "Ok" =>
                 /\ Len(last.descriptor_map) = m
                 /\ \A pos \in 0..(m - 1) :
                       last.descriptor_map[pos + 1] =
                          IF IndicesAt(metadata, pos) = {} THEN 0
                          ELSE Max(IndicesAt(metadata, pos))
           /\ IsPermutation(metadata, m) =>
                 /\ last.ret # "panic: index out of bounds"
                 /\ last.ret = "Ok" =>
                       \A i \in 0..(m - 1) : last.descriptor_map[metadata[i + 1] + 1] = i

\* C15 witness: a successful call whose metadata swaps the two spends.
C15_Witness ==
    /\ ShieldedOk
    /\ OldBuilder.spend_indices = <<1, 0>>
    /\ last.descriptor_map = <<1, 0>>

\* C16: a call computes one signing hash, every signature it makes is over
\* that hash, and the hash does not depend on the signatures the section
\* carries: it is the hash of the transaction as constructed, whose section
\* differs from the one signed at most in its signatures.
C16_OneSighash ==
    ShieldedOk =>
        /\ \A p \in DOMAIN last.authorizations : last.authorizations[p].msg = last.sighash
        /\ get_masp_section(orig, LastHash) # None
        /\ NonSig(<<OldSection>>) = NonSig(<<get_masp_section(orig, LastHash)[1]>>)
        /\ last.sighash = signature_hash(partial_deauthorize(get_masp_section(orig, LastHash)[1])[1])

\* C16 witness: a successful call that signed two positions of a section
\* already carrying signatures of an earlier call.
C16_Witness ==
    /\ ShieldedOk
    /\ Cardinality(DOMAIN last.authorizations) >= 2
    /\ OldSection # get_masp_section(orig, LastHash)[1]

\* C17: the signature stored under key p is made with the provider's factor
\* for index p, asked in the order of the positions; the signed positions
\* are 0..n-1 for n builder inputs; and neither changes when the metadata is
\* replaced by the empty or the identity position map.
C17_FactorIndexIsMapKey ==
    ShieldedOk =>
        LET m == Len(OldBuilder.sapling_inputs)
            provider == bparams[last.caller][1]
        IN /\ DOMAIN last.authorizations = 0..(m - 1)
           /\ last.asked = [i \in 1..m |-> i - 1]
           /\ \A p \in DOMAIN last.authorizations :
                 /\ p \in DOMAIN provider
                 /\ last.authorizations[p].alpha = provider[p]
           /\ \A metadata \in {<<>>, [i \in 1..m |-> i - 1]} :
                 \E alt \in {masp_sign(WithMetadata(last.pre_tx, metadata), last.signing_data,
                                       last.pre_bparams, last.pre_rng)} :
                    /\ alt.ret = "Ok"
                    /\ alt.authorizations = last.authorizations
                    /\ alt.asked = last.asked
                    /\ alt.bparams = provider
                    /\ get_masp_section(alt.tx, LastHash) = Some(NewSection)

\* C17 witness: a successful call that signed two positions under metadata
\* that is not the identity.
C17_Witness ==
    /\ ShieldedOk
    /\ Cardinality(DOMAIN last.authorizations) >= 2
    /\ OldBuilder.spend_indices = <<1, 0>>

---------------------------------------------------------------------------
(* The decoders *)

\* The decode call op has run on a kind payload that decodes to a message.
Decoded(op) ==
    /\ decoded.done
    /\ decoded.op = op
    /\ try_from_slice(decoded.msg).ok

\* The message of the kind payload.
KindMsg == try_from_slice(decoded.msg).v

\* The viewing key serialized key bytes carry, if they carry a key.
KeyOf(bytes) == IF bytes[1] = "borsh" THEN Some(bytes[2].xfvk) ELSE None

\* The viewing keys of a sequence of deserialized keys.
ViewingKeys(keys) == [i \in 1..Len(keys) |-> Some(keys[i].xfvk)]

\* C12: a decode call ends by returning a descriptor or an error value; it
\* never aborts.
C12_DecodersAlwaysReturn ==
    decoded.done => decoded.ret.kind \in {"Ok", "Err"}

\* C13: in the shielded and unshielding transfer decoders a payload with a
\* key that does not deserialize (a leg's source, the unshielding source, a
\* gas spending key) is not decoded into a descriptor, and the descriptor
\* carries the supplied keys: each leg's source, the unshielding source and
\* the gas spending keys, in the payload's order.
C13_SuppliedKeysDeserialized ==
    /\ Decoded("shielded_transfer_tx_args") =>
          /\ (\/ \E i \in 1..Len(KindMsg.data) : KeyOf(KindMsg.data[i].source) = None
              \/ \E i \in 1..Len(KindMsg.gas_spending_keys) :
                    KeyOf(KindMsg.gas_spending_keys[i]) = None)
                => decoded.ret.kind # "Ok"
          /\ decoded.ret.kind = "Ok" =>
                /\ [i \in 1..Len(decoded.ret.args.data) |->
                       Some(decoded.ret.args.data[i].source.xfvk)]
                      = [i \in 1..Len(KindMsg.data) |-> KeyOf(KindMsg.data[i].source)]
                /\ ViewingKeys(decoded.ret.args.gas_spending_keys)
                      = [i \in 1..Len(KindMsg.gas_spending_keys) |->
                            KeyOf(KindMsg.gas_spending_keys[i])]
    /\ Decoded("unshielding_transfer_tx_args") =>
          /\ (\/ KeyOf(KindMsg.source) = None
              \/ \E i \in 1..Len(KindMsg.gas_spending_keys) :
                    KeyOf(KindMsg.gas_spending_keys[i]) = None)
                => decoded.ret.kind # "Ok"
          /\ decoded.ret.kind = "Ok" =>
                /\ Some(decoded.ret.args.source.xfvk) = KeyOf(KindMsg.source)
                /\ ViewingKeys(decoded.ret.args.gas_spending_keys)
                      = [i \in 1..Len(KindMsg.gas_spending_keys) |->
                            KeyOf(KindMsg.gas_spending_keys[i])]

\* C14: claim_rewards_tx_args returns a descriptor without a source only for
\* a payload without one and a descriptor with the payload's address for a
\* well-formed source; for a malformed source it returns no descriptor.
C14_ClaimRewardsSource ==
    Decoded("claim_rewards_tx_args") =>
        /\ decoded.ret.kind = "Ok" =>
              /\ KindMsg.source = None => decoded.ret.args.source = None
              /\ KindMsg.source # None =>
                    /\ KindMsg.source[1] \in WellFormedAddresses
                    /\ decoded.ret.args.source = Some(<<"Address", KindMsg.source[1]>>)
        /\ (KindMsg.source # None /\ KindMsg.source[1] \notin WellFormedAddresses) =>
              /\ decoded.ret.kind # "Ok"
              /\ decoded.ret.args = NoArgs

\* C14 witness: the decoder has run on a payload whose validator and
\* envelope are well-formed and whose source is malformed, and has not
\* returned a descriptor.
C14_Witness ==
    /\ Decoded("claim_rewards_tx_args")
    /\ KindMsg.source = Some("not-an-address")
    /\ KindMsg.validator \in WellFormedAddresses
    /\ tx_msg_into_args(decoded.tx_msg).kind = "Ok"
    /\ decoded.ret.kind = "panic"

====
